---------------------------- MODULE Spec2Model ----------------------------
(***************************************************************************)
(* elfcopyflat: copy the loadable segments of an ELF file to a flat        *)
(* binary.  The module models src/src/elf.rs (identity block, ELF header   *)
(* and program header decoding and validation) and src/src/main.rs (the    *)
(* conversion run: segment selection, sorting, overlap scan, base          *)
(* resolution and the copy loop).                                          *)
(*                                                                         *)
(* Two specifications share the variables.  SpecHdr starts with the bytes  *)
(* of an input file and runs main up to the decoded program header table   *)
(* (byte-exact layouts, real byte order decoding).  SpecMain starts from a  *)
(* decoded table and runs the rest of main on machine words of WordBits    *)
(* bits, so that the unsigned arithmetic of the overlap scan and of the    *)
(* output seek wraps or panics as the u64 arithmetic of the program does.  *)
(***************************************************************************)
EXTENDS Integers, Sequences, FiniteSets, TLC

VARIABLES
    input,            \* the bytes of the input file
    args,             \* Args: if_, if_not, base (options), allow_overlaps
    overflow_checks,  \* build profile: TRUE panics on overflow, FALSE wraps
    pc,               \* position in main
    result,           \* how the run ended: [kind, msg], kind "none" while running
    ehdr,             \* Option<Ehdr>: <<>> or <<the canonical header>>
    phdr_bytes,       \* the raw segment header table read from the file
    table,            \* the decoded segment headers, in table order
    phdrs,            \* the selected segments, sorted by address
    overlaps,         \* number of adjacent pairs flagged by the scan
    base,             \* resolved base address
    idx,              \* copy loop: segments already handled
    output,           \* the output file: a function from written positions to bytes
    copied            \* per handled segment: [pos, len] of the bytes written for it

vars == << input, args, overflow_checks, pc, result, ehdr, phdr_bytes, table,
           phdrs, overlaps, base, idx, output, copied >>

(***************************************************************************)
(* Bounds of the model.                                                    *)
(***************************************************************************)
\* Width of a machine word in SpecMain (the program's u64, scaled down).
WordBits == 4
\* Largest number of entries of a segment header table.
MaxSegs == 2

(***************************************************************************)
(* Constants of elf.rs.                                                    *)
(***************************************************************************)
ELFMAG == << 127, 69, 76, 70 >>
ELFCLASS32 == 1
ELFCLASS64 == 2
ELFDATA2LSB == 1
ELFDATA2MSB == 2
EV_CURRENT == 1
EI_NIDENT == 16
U16_MAX == 65535
PT_LOAD == 1
PF_X == 1
PF_W == 2
PF_R == 4

\* Option<T>: <<>> is None, <<v>> is Some(v).
None == << >>
Some(v) == << v >>
unwrap_or(o, d) == IF o = None THEN d ELSE o[1]

\* anyhow::Result and panics: how a step ends.
Ok == [kind |-> "ok", msg |-> ""]
Err(m) == [kind |-> "err", msg |-> m]
Panic(m) == [kind |-> "panic", msg |-> m]
Running == [kind |-> "none", msg |-> ""]

(***************************************************************************)
(* Byte order decoding (zerocopy U16<O>, U32<O>, U64<O>::get).             *)
(***************************************************************************)
RECURSIVE GetLE(_)
GetLE(b) == IF b = << >> THEN 0 ELSE Head(b) + 256 * GetLE(Tail(b))

RECURSIVE GetBE(_)
GetBE(b) == IF b = << >> THEN 0 ELSE GetBE(SubSeq(b, 1, Len(b) - 1)) * 256 + b[Len(b)]

\* order is the Data byte of the identity block that selected the decoder.
Get(order, b) == IF order = ELFDATA2LSB THEN GetLE(b) ELSE GetBE(b)

(***************************************************************************)
(* Struct layouts (#[repr(C)], fields in declaration order, no padding).   *)
(* UN is 4 bytes for ELFCLASS32 and 8 bytes for ELFCLASS64.                *)
(***************************************************************************)
UNSize(class) == IF class = ELFCLASS32 THEN 4 ELSE 8

EhdrLayout(class) ==
    << <<"e_ident", EI_NIDENT>>, <<"e_type", 2>>, <<"e_machine", 2>>,
       <<"e_version", 4>>, <<"e_entry", UNSize(class)>>,
       <<"e_phoff", UNSize(class)>>, <<"e_shoff", UNSize(class)>>,
       <<"e_flags", 4>>, <<"e_ehsize", 2>>, <<"e_phentsize", 2>>,
       <<"e_phnum", 2>>, <<"e_shentsize", 2>>, <<"e_shnum", 2>>,
       <<"e_shstrndx", 2>> >>

Phdr32Layout ==
    << <<"p_type", 4>>, <<"p_offset", 4>>, <<"p_vaddr", 4>>, <<"p_paddr", 4>>,
       <<"p_filesz", 4>>, <<"p_memsz", 4>>, <<"p_flags", 4>>, <<"p_align", 4>> >>

Phdr64Layout ==
    << <<"p_type", 4>>, <<"p_flags", 4>>, <<"p_offset", 8>>, <<"p_vaddr", 8>>,
       <<"p_paddr", 8>>, <<"p_filesz", 8>>, <<"p_memsz", 8>>, <<"p_align", 8>> >>

PhdrLayout(class) == IF class = ELFCLASS32 THEN Phdr32Layout ELSE Phdr64Layout

\* size_of::<T>() of a layout: the sum of the field widths.
RECURSIVE SizeOf(_)
SizeOf(layout) ==
    IF layout = << >> THEN 0 ELSE layout[1][2] + SizeOf(Tail(layout))

\* Index of the field called name.
FieldIndex(layout, name) == CHOOSE k \in 1 .. Len(layout) : layout[k][1] = name

\* Bytes of the field called name in a buffer holding the struct.
FieldBytes(layout, buf, name) ==
    LET k == FieldIndex(layout, name)
        off == SizeOf(SubSeq(layout, 1, k - 1))
    IN  SubSeq(buf, off + 1, off + layout[k][2])

\* The decoded value of a field.
Field(layout, order, buf, name) == Get(order, FieldBytes(layout, buf, name))

(***************************************************************************)
(* Reader: r.read_exact(buf) from position pos of the file.                *)
(***************************************************************************)
\* TRUE when n bytes are available at 0-based position pos.
CanReadExact(file, pos, n) == pos + n <= Len(file)

ReadExact(file, pos, n) == SubSeq(file, pos + 1, pos + n)

(***************************************************************************)
(* Identity block.                                                         *)
(***************************************************************************)
Mag_valid(magic) == magic = ELFMAG

Class_valid(class) == class = ELFCLASS32 \/ class = ELFCLASS64

Data_valid(data) == data = ELFDATA2LSB \/ data = ELFDATA2MSB

Version_valid(version) == version = EV_CURRENT

\* FromBytes::read_from of the 16 bytes of struct Ident.
Ident_from(buf) ==
    [ magic |-> SubSeq(buf, 1, 4), class |-> buf[5], data |-> buf[6],
      version |-> buf[7], os_abi |-> buf[8], abi_version |-> buf[9],
      pad |-> SubSeq(buf, 10, EI_NIDENT) ]

\* Ident::validate: the first failed check decides.
Ident_validate(ident) ==
    IF ~Class_valid(ident.class) THEN Err("Invalid class")
    ELSE IF ~Data_valid(ident.data) THEN Err("Invalid data (endianness)")
    ELSE IF ~Version_valid(ident.version) THEN Err("Invalid version")
    ELSE Ok

(***************************************************************************)
(* ELF header.                                                             *)
(***************************************************************************)
\* EhdrN::<O, UN>::read_from: the struct as read, still in file byte order.
\* The record keeps the raw buffer and the decoder (class, order) chosen.
EhdrN_from(class, order, buf) ==
    [ class |-> class, order |-> order, buf |-> buf,
      e_ident |-> Ident_from(SubSeq(buf, 1, EI_NIDENT)) ]

EhdrN_get(h, name) == Field(EhdrLayout(h.class), h.order, h.buf, name)

\* EhdrN::validate without the check of e_phentsize.
EhdrN_validate_NoEntrySize(h) ==
    LET iv == Ident_validate(h.e_ident) IN
    IF iv.kind # "ok" THEN iv
    ELSE IF EhdrN_get(h, "e_phnum") = U16_MAX
         THEN Err("Too many segments, unimplemented PN_XNUM")
    ELSE Ok

\* EhdrN::validate.
EhdrN_validate(h) ==
    LET iv == Ident_validate(h.e_ident) IN
    IF iv.kind # "ok" THEN iv
    ELSE IF ~Class_valid(h.e_ident.class)
         THEN Panic("Invalid ELF header slipped through")
    ELSE IF EhdrN_get(h, "e_phentsize") # SizeOf(PhdrLayout(h.e_ident.class))
         THEN Err("Invalid e_phentsize")
    ELSE IF EhdrN_get(h, "e_phnum") = U16_MAX
         THEN Err("Too many segments, unimplemented PN_XNUM")
    ELSE Ok

\* EhdrN::wrap: every field decoded and widened to the canonical header.
EhdrN_wrap(h) ==
    [ e_ident |-> h.e_ident,
      e_type |-> EhdrN_get(h, "e_type"),
      e_machine |-> EhdrN_get(h, "e_machine"),
      e_version |-> EhdrN_get(h, "e_version"),
      e_entry |-> EhdrN_get(h, "e_entry"),
      e_phoff |-> EhdrN_get(h, "e_phoff"),
      e_shoff |-> EhdrN_get(h, "e_shoff"),
      e_flags |-> EhdrN_get(h, "e_flags"),
      e_ehsize |-> EhdrN_get(h, "e_ehsize"),
      e_phentsize |-> EhdrN_get(h, "e_phentsize"),
      e_phnum |-> EhdrN_get(h, "e_phnum"),
      e_shentsize |-> EhdrN_get(h, "e_shentsize"),
      e_shnum |-> EhdrN_get(h, "e_shnum"),
      e_shstrndx |-> EhdrN_get(h, "e_shstrndx") ]

\* Ehdr::read on a file positioned at 0: [res, ehdr].
Ehdr_read(file) ==
    IF ~CanReadExact(file, 0, EI_NIDENT)
    THEN [res |-> Err("failed to fill whole buffer"), ehdr |-> None]
    ELSE
      LET ident == Ident_from(ReadExact(file, 0, EI_NIDENT)) IN
      IF ~(Class_valid(ident.class) /\ Data_valid(ident.data))
      THEN [res |-> Panic("Invalid ELF header slipped through"), ehdr |-> None]
      ELSE
        LET size == SizeOf(EhdrLayout(ident.class)) IN
        IF ~CanReadExact(file, 0, size)
        THEN [res |-> Err("failed to fill whole buffer"), ehdr |-> None]
        ELSE
          LET h == EhdrN_from(ident.class, ident.data, ReadExact(file, 0, size))
              v == EhdrN_validate(h)
          IN  IF v.kind # "ok" THEN [res |-> v, ehdr |-> None]
              ELSE [res |-> Ok, ehdr |-> Some(EhdrN_wrap(h))]

ph_offset(e) == e.e_phoff

ph_entry_size(e) == e.e_phentsize

ph_size(e) == ph_entry_size(e) * e.e_phnum


(***************************************************************************)
(* Program headers.                                                        *)
(***************************************************************************)
\* Phdr32::wrap / Phdr64::wrap: the canonical (64-bit) segment header.
PhdrN_wrap(class, order, buf) ==
    LET g(name) == Field(PhdrLayout(class), order, buf, name) IN
    [ p_type |-> g("p_type"), p_flags |-> g("p_flags"),
      p_offset |-> g("p_offset"), p_vaddr |-> g("p_vaddr"),
      p_paddr |-> g("p_paddr"), p_filesz |-> g("p_filesz"),
      p_memsz |-> g("p_memsz"), p_align |-> g("p_align") ]

\* Phdr::from_bytes: [res, phdr].  read_from yields None unless the slice has
\* exactly the size of the struct, and expect() then panics.
Phdr_from_bytes(data, e) ==
    IF ~(Class_valid(e.e_ident.class) /\ Data_valid(e.e_ident.data))
    THEN [res |-> Panic("Invalid ELF header slipped through"), phdr |-> None]
    ELSE IF Len(data) # SizeOf(PhdrLayout(e.e_ident.class))
    THEN [res |-> Panic("Invalid ELF header slipped through"), phdr |-> None]
    ELSE [res |-> Ok,
          phdr |-> Some(PhdrN_wrap(e.e_ident.class, e.e_ident.data, data))]

to_type(p) == p.p_type
flags(p) == p.p_flags
address(p) == p.p_vaddr
file_offset(p) == p.p_offset
file_size(p) == p.p_filesz
memory_size(p) == p.p_memsz

\* slice::chunks_exact(size) for size > 0: the full chunks, in order; a
\* remainder shorter than size is dropped.
ChunksExact(bytes, size) ==
    [ k \in 1 .. (Len(bytes) \div size) |->
        SubSeq(bytes, (k - 1) * size + 1, k * size) ]

(***************************************************************************)
(* main, first part: header, segment header table, decoding.  The files of *)
(* SpecHdr hold small offsets, so the seek to ph_offset always succeeds.   *)
(***************************************************************************)
\* let ehdr = elf::Ehdr::read(&mut input_file)?;
ReadEhdr ==
    /\ pc = "start"
    /\ LET r == Ehdr_read(input) IN
       IF r.res.kind = "ok"
       THEN /\ ehdr' = r.ehdr
            /\ pc' = "read_phdrs"
            /\ UNCHANGED result
       ELSE /\ result' = r.res
            /\ pc' = "done"
            /\ UNCHANGED ehdr
    /\ UNCHANGED << input, args, overflow_checks, phdr_bytes, table, phdrs,
                    overlaps, base, idx, output, copied >>

\* vec![0; ehdr.ph_size()]; seek(Start(ph_offset)); read_exact(&mut phdr_bytes)?
ReadPhdrTable ==
    /\ pc = "read_phdrs"
    /\ LET e == ehdr[1] IN
       IF CanReadExact(input, ph_offset(e), ph_size(e))
       THEN /\ phdr_bytes' = ReadExact(input, ph_offset(e), ph_size(e))
            /\ pc' = "parse"
            /\ UNCHANGED result
       ELSE /\ result' = Err("failed to fill whole buffer")
            /\ pc' = "done"
            /\ UNCHANGED phdr_bytes
    /\ UNCHANGED << input, args, overflow_checks, ehdr, table, phdrs,
                    overlaps, base, idx, output, copied >>

\* The outcome of chunks_exact(ph_entry_size).map(Phdr::from_bytes): [res, table].
DecodeTable(bytes, e) ==
    IF ph_entry_size(e) = 0
    THEN [res |-> Panic("chunk size must be non-zero"), table |-> << >>]
    ELSE
      LET chunks == ChunksExact(bytes, ph_entry_size(e))
          dec == [k \in 1 .. Len(chunks) |-> Phdr_from_bytes(chunks[k], e)]
      IN  IF \E k \in 1 .. Len(dec) : dec[k].res.kind # "ok"
          THEN [res |-> Panic("Invalid ELF header slipped through"),
                table |-> << >>]
          ELSE [res |-> Ok, table |-> [k \in 1 .. Len(dec) |-> dec[k].phdr[1]]]

\* phdr_bytes.chunks_exact(..).map(|b| Phdr::from_bytes(b, &ehdr))
ParsePhdrs ==
    /\ pc = "parse"
    /\ LET d == DecodeTable(phdr_bytes, ehdr[1]) IN
       IF d.res.kind = "ok"
       THEN /\ table' = d.table
            /\ pc' = "select"
            /\ UNCHANGED result
       ELSE /\ result' = d.res
            /\ pc' = "done"
            /\ UNCHANGED table
    /\ UNCHANGED << input, args, overflow_checks, ehdr, phdr_bytes, phdrs,
                    overlaps, base, idx, output, copied >>

(***************************************************************************)
(* Input files of SpecHdr: an identity block, a header and a segment       *)
(* header table laid out as the structs of elf.rs, then cut to a length.   *)
(***************************************************************************)
RECURSIVE PutLE(_, _)
PutLE(v, n) == IF n = 0 THEN << >> ELSE << v % 256 >> \o PutLE(v \div 256, n - 1)

RECURSIVE PutBE(_, _)
PutBE(v, n) == IF n = 0 THEN << >> ELSE PutBE(v \div 256, n - 1) \o << v % 256 >>

Put(order, v, n) == IF order = ELFDATA2LSB THEN PutLE(v, n) ELSE PutBE(v, n)

RECURSIVE PutStruct(_, _, _)
PutStruct(layout, order, vals) ==
    IF layout = << >> THEN << >>
    ELSE Put(order, vals[layout[1][1]], layout[1][2])
         \o PutStruct(Tail(layout), order, vals)

Zeros(n) == [i \in 1 .. n |-> 0]

MkIdent(magic, class, data, version) ==
    magic \o << class, data, version, 0, 0 >> \o Zeros(EI_NIDENT - 9)

\* The k-th segment header of a generated table.
MkPhdrVals(k) ==
    [ p_type |-> IF k % 2 = 1 THEN PT_LOAD ELSE 6, p_flags |-> PF_R + (k % 2),
      p_offset |-> 256 + k, p_vaddr |-> 4096 * k, p_paddr |-> 0,
      p_filesz |-> k, p_memsz |-> 2 * k, p_align |-> 4096 ]

RECURSIVE MkTable(_, _, _)
MkTable(class, order, n) ==
    IF n = 0 THEN << >>
    ELSE MkTable(class, order, n - 1)
         \o PutStruct(PhdrLayout(class), order, MkPhdrVals(n))

\* The layout a file is written in: the declared one when it is a legal one.
WClass(class) == IF Class_valid(class) THEN class ELSE ELFCLASS64
WOrder(data) == IF Data_valid(data) THEN data ELSE ELFDATA2LSB

MkFile(magic, class, data, version, phentsize, phnum) ==
    LET wc == WClass(class)
        wo == WOrder(data)
        hsize == SizeOf(EhdrLayout(wc))
        vals == [ e_type |-> 2, e_machine |-> 243, e_version |-> 1,
                  e_entry |-> 4096, e_phoff |-> hsize, e_shoff |-> 0,
                  e_flags |-> 5, e_ehsize |-> hsize,
                  e_phentsize |-> phentsize, e_phnum |-> phnum,
                  e_shentsize |-> 0, e_shnum |-> 0, e_shstrndx |-> 0 ]
    IN  MkIdent(magic, class, data, version)
        \o PutStruct(Tail(EhdrLayout(wc)), wo, vals)
        \o MkTable(wc, wo, IF phnum = U16_MAX THEN MaxSegs ELSE phnum)

\* ELFMAG and ELFMAG with one of its four bytes changed.
MagicVals ==
    {ELFMAG} \cup { [ELFMAG EXCEPT ![i] = 0] : i \in 1 .. 4 }

\* Lengths a file f is cut to: whole, one byte short, inside the header,
\* inside the identity block.
CutLens(f) == { Len(f), Len(f) - 1, EI_NIDENT + 4, EI_NIDENT - 1 }

InputFiles ==
    UNION { LET f == MkFile(m, c, d, v, es, n)
            IN  { SubSeq(f, 1, l) : l \in CutLens(f) } :
            m \in MagicVals, c \in 0 .. 3, d \in 0 .. 3, v \in 0 .. 2,
            es \in { 0, SizeOf(Phdr32Layout), SizeOf(Phdr64Layout) },
            n \in (0 .. MaxSegs) \cup { U16_MAX } }

NoArgs == [ if_ |-> None, if_not |-> None, base |-> None,
            allow_overlaps |-> FALSE ]

EmptyFile == [p \in {} |-> 0]

InitHdr ==
    /\ input \in InputFiles
    /\ args = NoArgs
    /\ overflow_checks \in BOOLEAN
    /\ pc = "start"
    /\ result = Running
    /\ ehdr = None
    /\ phdr_bytes = << >>
    /\ table = << >>
    /\ phdrs = << >>
    /\ overlaps = 0
    /\ base = 0
    /\ idx = 0
    /\ output = EmptyFile
    /\ copied = << >>

NextHdr == ReadEhdr \/ ReadPhdrTable \/ ParsePhdrs

SpecHdr == InitHdr /\ [][NextHdr]_vars


(***************************************************************************)
(* Machine words of SpecMain: the program's u64 with WordBits bits.        *)
(***************************************************************************)
U64_MOD == 2 ^ WordBits
U64_MAX == U64_MOD - 1
\* i64::MAX + 1: File::seek hands the offset to lseek as a signed value, so
\* a position at or above it is refused (EINVAL).
I64_LIMIT == U64_MOD \div 2

\* a + b on u64: [panic, val].  With overflow checks an overflow panics,
\* without them the sum wraps.
AddU64(a, b, checks) ==
    [ panic |-> checks /\ a + b > U64_MAX, val |-> (a + b) % U64_MOD ]

\* a - b on u64, likewise.
SubU64(a, b, checks) ==
    [ panic |-> checks /\ a < b, val |-> (a - b + U64_MOD) % U64_MOD ]

\* Bitwise and of two naturals (u32 & u32).
RECURSIVE BitAnd(_, _)
BitAnd(a, b) ==
    IF a = 0 \/ b = 0 THEN 0
    ELSE (a % 2) * (b % 2) + 2 * BitAnd(a \div 2, b \div 2)

\* !0 of the filter: all bits set (the 31 bits an integer of the model holds).
NOT_ZERO == 2147483647

(***************************************************************************)
(* main, second part: selection, sort, overlap scan, base, copy.           *)
(***************************************************************************)
\* The closure of .filter(...) in main.
Selected(p, a) ==
    /\ to_type(p) = PT_LOAD
    /\ BitAnd(flags(p), unwrap_or(a.if_, NOT_ZERO)) # 0
    /\ BitAnd(flags(p), unwrap_or(a.if_not, 0)) = 0

\* Iterator::filter(..).collect(): the entries kept, in table order.
RECURSIVE Filter(_, _)
Filter(s, a) ==
    IF s = << >> THEN << >>
    ELSE IF Selected(Head(s), a) THEN << Head(s) >> \o Filter(Tail(s), a)
    ELSE Filter(Tail(s), a)

\* Insert p behind every element whose address is not larger (stability).
RECURSIVE InsertByKey(_, _)
InsertByKey(s, p) ==
    IF s = << >> THEN << p >>
    ELSE IF address(s[Len(s)]) <= address(p) THEN Append(s, p)
    ELSE Append(InsertByKey(SubSeq(s, 1, Len(s) - 1), p), s[Len(s)])

\* phdrs.sort_by_key(|p| p.address()): a stable sort.
RECURSIVE SortByKey(_)
SortByKey(s) ==
    IF s = << >> THEN << >>
    ELSE InsertByKey(SortByKey(SubSeq(s, 1, Len(s) - 1)), s[Len(s)])

\* .filter(...).collect(); phdrs.sort_by_key(...)
Select ==
    /\ pc = "select"
    /\ phdrs' = SortByKey(Filter(table, args))
    /\ pc' = "scan"
    /\ UNCHANGED << input, args, overflow_checks, result, ehdr, phdr_bytes,
                    table, overlaps, base, idx, output, copied >>

\* The filter closure of the overlap scan on the pair (s[k], s[k+1]).
PairEnd(s, k, checks) == AddU64(address(s[k]), memory_size(s[k]), checks)

PairOverlaps(s, k, checks) == PairEnd(s, k, checks).val > address(s[k + 1])

\* phdrs.iter().zip(phdrs.iter().skip(1)).filter(..).count(): [panic, count].
ScanOverlaps(s, checks) ==
    LET pairs == 1 .. (Len(s) - 1) IN
    [ panic |-> \E k \in pairs : PairEnd(s, k, checks).panic,
      count |-> Cardinality({ k \in pairs : PairOverlaps(s, k, checks) }) ]

Scan ==
    /\ pc = "scan"
    /\ LET r == ScanOverlaps(phdrs, overflow_checks) IN
       IF r.panic
       THEN /\ result' = Panic("attempt to add with overflow")
            /\ pc' = "done"
            /\ UNCHANGED overlaps
       ELSE /\ overlaps' = r.count
            /\ pc' = "base"
            /\ UNCHANGED result
    /\ UNCHANGED << input, args, overflow_checks, ehdr, phdr_bytes, table,
                    phdrs, base, idx, output, copied >>

\* phdrs.iter().map(|phdr| phdr.address()).min().unwrap_or(0)
MinAddress(s) ==
    IF s = << >> THEN 0
    ELSE CHOOSE m \in { address(s[k]) : k \in 1 .. Len(s) } :
             \A k \in 1 .. Len(s) : m <= address(s[k])

\* The base without the minimum over the segments.
ResolveBase_NoMin(a, s) == unwrap_or(a.base, 0)

\* args.base.unwrap_or_else(...)
ResolveBase(a, s) == unwrap_or(a.base, MinAddress(s))

\* The bail condition without the toggle.
MustBail_NoToggle(n, a) == n > 0

\* overlaps > 0 && !args.allow_overlaps
MustBail(n, a) == n > 0 /\ ~a.allow_overlaps

\* if overlaps > 0 && !args.allow_overlaps { bail!(..) }; let base = ...
BailOrBase ==
    /\ pc = "base"
    /\ IF MustBail(overlaps, args)
       THEN /\ result' =
                 Err("Overlapping segments (Use --allow-overlaps to use it anyway)")
            /\ pc' = "done"
            /\ UNCHANGED base
       ELSE /\ base' = ResolveBase(args, phdrs)
            /\ pc' = "copy"
            /\ UNCHANGED result
    /\ UNCHANGED << input, args, overflow_checks, ehdr, phdr_bytes, table,
                    phdrs, overlaps, idx, output, copied >>

\* File::seek(SeekFrom::Start(pos)) succeeds.
SeekOk(pos) == pos < I64_LIMIT

\* The bytes io::copy moves from (&mut input_file).take(n) with the file at
\* position off: it reads until n bytes are taken or the file ends.
TakeBytes(file, off, n) ==
    LET avail == IF off >= Len(file) THEN 0 ELSE Len(file) - off
        m == IF n <= avail THEN n ELSE avail
    IN  SubSeq(file, off + 1, off + m)

\* The output file after bytes are written at position pos.
WriteAt(out, pos, bytes) ==
    [ q \in DOMAIN out \cup { pos + i - 1 : i \in 1 .. Len(bytes) } |->
        IF pos <= q /\ q < pos + Len(bytes) THEN bytes[q - pos + 1] ELSE out[q] ]

\* The position the output is sought to for segment p.
DestPos(p, b, checks) == SubU64(address(p), b, checks)

\* The offset the input is sought to for segment p.
SrcPos(p) == file_offset(p)

\* One iteration of: for p in &phdrs { seek; seek; io::copy }
CopySegment ==
    /\ pc = "copy"
    /\ idx < Len(phdrs)
    /\ LET p == phdrs[idx + 1]
           d == DestPos(p, base, overflow_checks)
       IN  IF d.panic
           THEN /\ result' = Panic("attempt to subtract with overflow")
                /\ pc' = "done"
                /\ UNCHANGED << idx, output, copied >>
           ELSE IF ~SeekOk(d.val) \/ ~SeekOk(SrcPos(p))
           THEN /\ result' = Err("Invalid argument")
                /\ pc' = "done"
                /\ UNCHANGED << idx, output, copied >>
           ELSE LET bytes == TakeBytes(input, SrcPos(p), file_size(p)) IN
                /\ output' = WriteAt(output, d.val, bytes)
                /\ copied' = Append(copied, [pos |-> d.val, len |-> Len(bytes)])
                /\ idx' = idx + 1
                /\ UNCHANGED << pc, result >>
    /\ UNCHANGED << input, args, overflow_checks, ehdr, phdr_bytes, table,
                    phdrs, overlaps, base >>

\* Ok(())
Finish ==
    /\ pc = "copy"
    /\ idx = Len(phdrs)
    /\ result' = Ok
    /\ pc' = "done"
    /\ UNCHANGED << input, args, overflow_checks, ehdr, phdr_bytes, table,
                    phdrs, overlaps, base, idx, output, copied >>

(***************************************************************************)
(* Inputs of SpecMain: a decoded table, the arguments, the data bytes.     *)
(***************************************************************************)
\* Sequences over S of length at most n.
RECURSIVE SeqsUpTo(_, _)
SeqsUpTo(S, n) ==
    IF n = 0 THEN { << >> }
    ELSE LET shorter == SeqsUpTo(S, n - 1)
         IN  shorter \cup { Append(s, x) : s \in { t \in shorter : Len(t) = n - 1 }, x \in S }

MkPhdr(type, fl, off, vaddr, filesz, memsz) ==
    [ p_type |-> type, p_flags |-> fl, p_offset |-> off, p_vaddr |-> vaddr,
      p_paddr |-> vaddr, p_filesz |-> filesz, p_memsz |-> memsz, p_align |-> 1 ]

\* Loadable, readable segments that differ in placement and sizes.
LayoutPool ==
    { MkPhdr(PT_LOAD, PF_R, off, va, fsz, msz) :
        off \in { 0, 2 }, va \in { 2, 4, U64_MAX },
        fsz \in { 1, 3 }, msz \in { 0, 1, U64_MAX } }

\* Segments that differ in type and flags; each starts where its file bytes do.
FlagPool ==
    { MkPhdr(ty, fl, off, off, 1, 1) :
        ty \in { PT_LOAD, 6 }, fl \in { 0, PF_X, PF_R + PF_X, PF_R + PF_W },
        off \in { 0, 2 } }

MaskVals == { None, Some(0), Some(PF_X), Some(PF_R + PF_X), Some(PF_W) }

BaseVals == { None, Some(0), Some(3), Some(U64_MAX) }

\* The data bytes of an input file: the byte at offset k is 17 + k.
DataFile == [ i \in 1 .. 4 |-> 16 + i ]

\* The state of main once the table is decoded: any sequence of canonical
\* segment headers is the image of some table.  The header and the raw table
\* are not read again, and are left empty here.
InitMain ==
    /\ \/ /\ table \in SeqsUpTo(LayoutPool, MaxSegs)
          /\ args \in [ if_ : { None }, if_not : { None }, base : BaseVals,
                        allow_overlaps : BOOLEAN ]
       \/ /\ table \in SeqsUpTo(FlagPool, MaxSegs)
          /\ args \in [ if_ : MaskVals, if_not : MaskVals, base : { None },
                        allow_overlaps : { FALSE } ]
    /\ input = DataFile
    /\ overflow_checks \in BOOLEAN
    /\ pc = "select"
    /\ result = Running
    /\ ehdr = None
    /\ phdr_bytes = << >>
    /\ phdrs = << >>
    /\ overlaps = 0
    /\ base = 0
    /\ idx = 0
    /\ output = EmptyFile
    /\ copied = << >>

NextMain == Select \/ Scan \/ BailOrBase \/ CopySegment \/ Finish

SpecMain == InitMain /\ [][NextMain]_vars


(***************************************************************************)
(* Claims about the header stage (SpecHdr).                                *)
(***************************************************************************)
\* The identity block of the input file, when the file holds one.
HasIdent == Len(input) >= 16
InIdent == Ident_from(SubSeq(input, 1, 16))
HeaderStageDone == pc # "start"

\* A 16-bit field at a fixed file offset, read in the declared byte order.
RawU16(off) ==
    IF InIdent.data = 1 THEN input[off + 1] + 256 * input[off + 2]
    ELSE 256 * input[off + 1] + input[off + 2]

\* Size of the header, offsets of e_phentsize and e_phnum, and size of a
\* segment header, by declared class (ELF32 / ELF64).
RawEhdrSize == IF InIdent.class = 1 THEN 52 ELSE 64
RawPhentsize == RawU16(IF InIdent.class = 1 THEN 42 ELSE 54)
RawPhnum == RawU16(IF InIdent.class = 1 THEN 44 ELSE 56)
StructPhdrSize == IF InIdent.class = 1 THEN 32 ELSE 56

IdentLegal ==
    /\ InIdent.class \in {1, 2}
    /\ InIdent.data \in {1, 2}
    /\ InIdent.version = 1

\* C1: an identity block with a class byte outside {1,2}, a byte order byte
\* outside {1,2} or a version byte other than 1 makes Ehdr::read end with an
\* error value (never a panic, never a header), and when the whole header
\* could be read the error names a field that is illegal.
C1_IllegalIdentIsAnError ==
    (HeaderStageDone /\ HasIdent /\ ~IdentLegal) =>
        /\ result.kind = "err"
        /\ ehdr = None
        /\ Len(input) >= 64 =>
             \/ result.msg = "Invalid class" /\ InIdent.class \notin {1, 2}
             \/ result.msg = "Invalid data (endianness)" /\ InIdent.data \notin {1, 2}
             \/ result.msg = "Invalid version" /\ InIdent.version # 1

\* C2: a file whose first four bytes differ from 0x7f 'E' 'L' 'F' is refused:
\* no header is returned for it and the segment table is never read.
C2_BadMagicIsRefused ==
    (HeaderStageDone /\ HasIdent /\ SubSeq(input, 1, 4) # << 127, 69, 76, 70 >>) =>
        /\ ehdr = None
        /\ pc \notin {"read_phdrs", "parse", "select"}

\* C8: Ehdr::read returns a header only if e_phentsize is the size of a segment
\* header of the declared class (32 or 56 bytes) and e_phnum is not 0xFFFF, and
\* fails with the matching error otherwise; for an accepted header the table
\* read is split into chunks of exactly that size, Phdr::from_bytes decodes
\* every chunk, and nothing panics.
C8_AcceptedHeaderHasExactEntrySize ==
    /\ ehdr # None =>
         /\ HasIdent /\ IdentLegal /\ Len(input) >= RawEhdrSize
         /\ RawPhentsize = StructPhdrSize
         /\ RawPhnum # 65535
         /\ ehdr[1].e_phentsize = StructPhdrSize
         /\ ehdr[1].e_phnum = RawPhnum
         /\ result.kind # "panic"
    /\ (HeaderStageDone /\ HasIdent /\ IdentLegal /\ Len(input) >= RawEhdrSize) =>
         /\ RawPhentsize # StructPhdrSize => result = Err("Invalid e_phentsize")
         /\ (RawPhentsize = StructPhdrSize /\ RawPhnum = 65535) =>
              result = Err("Too many segments, unimplemented PN_XNUM")
         /\ (RawPhentsize = StructPhdrSize /\ RawPhnum # 65535) => ehdr # None
    /\ pc = "parse" =>
         /\ Len(phdr_bytes) = StructPhdrSize * RawPhnum
         /\ LET chunks == ChunksExact(phdr_bytes, ph_entry_size(ehdr[1])) IN
            /\ Len(chunks) = RawPhnum
            /\ \A k \in 1 .. Len(chunks) :
                 /\ Len(chunks[k]) = StructPhdrSize
                 /\ Phdr_from_bytes(chunks[k], ehdr[1]).res = Ok
    /\ pc = "select" => Len(table) = RawPhnum

\* C8 witness: a big-endian 32-bit file was accepted and its table decoded.
C8_Witness ==
    /\ pc = "select"
    /\ Len(table) >= 1
    /\ ehdr[1].e_ident.class = 1
    /\ ehdr[1].e_ident.data = 2
    /\ ehdr[1].e_phentsize = 32

(***************************************************************************)
(* Claims about selection, overlap scan, base and copy (SpecMain).         *)
(***************************************************************************)
OverlapError == Err("Overlapping segments (Use --allow-overlaps to use it anyway)")
AddPanic == Panic("attempt to add with overflow")
SubPanic == Panic("attempt to subtract with overflow")

ScanCompleted == pc \in {"base", "copy"} \/ (pc = "done" /\ result # AddPanic)
BaseResolved ==
    pc = "copy" \/ (pc = "done" /\ result # AddPanic /\ result # OverlapError)

\* The selection the claim describes: loadable, all bits of the include mask,
\* no bit of the exclude mask.
C3_Retained(p, a) ==
    /\ p.p_type = 1
    /\ a.if_ # None => BitAnd(p.p_flags, a.if_[1]) = a.if_[1]
    /\ a.if_not # None => BitAnd(p.p_flags, a.if_not[1]) = 0

\* C3: the selected segments are exactly the loadable entries whose flags hold
\* all bits of the include mask and no bit of the exclude mask, an absent mask
\* being no constraint.
C3_SelectionMatchesMasks ==
    (pc = "scan") =>
        /\ \A k \in 1 .. Len(phdrs) : C3_Retained(phdrs[k], args)
        /\ Len(phdrs) = Cardinality({ k \in 1 .. Len(table) : C3_Retained(table[k], args) })

\* Two segments overlap: their address ranges [vaddr, vaddr + memsz) share an
\* address, in unbounded arithmetic.
C4_PairOverlaps(a, b) ==
    a.p_vaddr < b.p_vaddr + b.p_memsz /\ b.p_vaddr < a.p_vaddr + a.p_memsz

C4_SomePairOverlaps(s) ==
    \E i, j \in 1 .. Len(s) : i # j /\ C4_PairOverlaps(s[i], s[j])

Reverse(s) == [ k \in 1 .. Len(s) |-> s[Len(s) + 1 - k] ]

\* C4: sorting and scanning adjacent pairs yields a verdict, the verdict is
\* true exactly when some pair of selected segments overlaps, and it is the
\* same for the table in another order.
C4_ScanFindsEveryOverlap ==
    (pc \in {"base", "copy", "done"}) =>
        /\ result # AddPanic
        /\ (overlaps > 0) <=> C4_SomePairOverlaps(phdrs)
        /\ LET other == ScanOverlaps(SortByKey(Filter(Reverse(table), args)),
                                     overflow_checks)
           IN  ~other.panic /\ ((other.count > 0) <=> (overlaps > 0))

\* C5: the run ends with the overlap error exactly when the scan flagged a
\* pair and allow_overlaps is not set; it then has written nothing; with
\* allow_overlaps set the run goes on into the copy loop, which handles every
\* selected segment unless the seek for one of them fails.
C5_OverlapBailsOnlyWithoutToggle ==
    /\ result = OverlapError =>
         /\ pc = "done" /\ overlaps > 0 /\ ~args.allow_overlaps
         /\ output = EmptyFile /\ copied = << >> /\ idx = 0
    /\ (ScanCompleted /\ pc \in {"copy", "done"} /\ overlaps > 0 /\ ~args.allow_overlaps) =>
         result = OverlapError
    /\ (ScanCompleted /\ pc \in {"copy", "done"} /\ overlaps > 0 /\ args.allow_overlaps) =>
         /\ result # OverlapError
         /\ Len(copied) = idx
         /\ (pc = "done" /\ result = Ok) => idx = Len(phdrs)
         /\ (pc = "done" /\ result # Ok) =>
              /\ idx < Len(phdrs)
              /\ \/ phdrs[idx + 1].p_vaddr < base
                 \/ ~SeekOk((phdrs[idx + 1].p_vaddr - base) % U64_MOD)
                 \/ ~SeekOk(phdrs[idx + 1].p_offset)

\* C5 witness: overlapping segments were tolerated and both were copied.
C5_Witness ==
    /\ pc = "done" /\ result = Ok
    /\ overlaps > 0 /\ args.allow_overlaps
    /\ Len(phdrs) = 2 /\ Len(copied) = 2

\* C6: the base is the explicit base when given, else the lowest address of
\* the selected segments, else 0; the bytes of a segment are written from
\* position address - base on (the u64 difference, which is the difference
\* of the two numbers whenever the base is not above the address), so without
\* an explicit base the lowest segment lands at 0.
C6_BaseAndDestination ==
    BaseResolved =>
        /\ args.base # None => base = args.base[1]
        /\ (args.base = None /\ phdrs = << >>) => base = 0
        /\ (args.base = None /\ phdrs # << >>) =>
             /\ \A k \in 1 .. Len(phdrs) : base <= phdrs[k].p_vaddr
             /\ \E k \in 1 .. Len(phdrs) : base = phdrs[k].p_vaddr
             /\ Len(copied) >= 1 => copied[1].pos = 0
        /\ \A k \in 1 .. Len(copied) :
             /\ copied[k].pos = (phdrs[k].p_vaddr - base) % U64_MOD
             /\ base <= phdrs[k].p_vaddr => copied[k].pos = phdrs[k].p_vaddr - base
        /\ Len(copied) >= 1 =>
             LET k == Len(copied) IN
             \A i \in 0 .. copied[k].len - 1 :
                 /\ copied[k].pos + i \in DOMAIN output
                 /\ output[copied[k].pos + i] = input[phdrs[k].p_offset + i + 1]

\* C6 witness: no explicit base, segments at 2 and 4: base 2, offsets 0 and 2.
C6_Witness ==
    /\ pc = "done" /\ result = Ok /\ args.base = None
    /\ Len(phdrs) = 2 /\ phdrs[1].p_vaddr = 2 /\ phdrs[2].p_vaddr = 4
    /\ base = 2 /\ copied[1].pos = 0 /\ copied[2].pos = 2
    /\ copied[2].len = 3

\* C7: a run that completes has written exactly file size bytes for every
\* selected segment, in address order.
C7_CompletedRunCopiedWholeSegments ==
    (pc = "done" /\ result = Ok) =>
        /\ Len(copied) = Len(phdrs)
        /\ \A k \in 1 .. Len(copied) : copied[k].len = phdrs[k].p_filesz

\* C9: when the scan flags no pair, the byte ranges written for distinct
\* selected segments are pairwise disjoint.
C9_NoFlagMeansDisjointWrites ==
    (ScanCompleted /\ overlaps = 0) =>
        \A i, j \in 1 .. Len(copied) :
            i < j => \/ copied[i].pos + copied[i].len <= copied[j].pos
                     \/ copied[j].pos + copied[j].len <= copied[i].pos

\* C10: the destination position address - base is computed without
\* underflow: the base is not above the address of any segment that is
\* copied, and the position is the mathematical difference.
C10_DestinationNeverUnderflows ==
    /\ result # SubPanic
    /\ \A k \in 1 .. Len(copied) :
         /\ base <= phdrs[k].p_vaddr
         /\ copied[k].pos = phdrs[k].p_vaddr - base

=============================================================================
